---------------------------- MODULE Spec2Model ----------------------------
(*
  A model of the thingamajig virtual CPU (src/src/main.rs): the register
  file, the Core with its memory array and memory-mapped character device,
  Core::load, Core::step and the driver loop of main.

  Representation.  The memory array has MEM_SIZE bytes, all zero after
  Core::new.  It is kept as a function whose domain is the set of the
  addresses that hold a non-zero byte; MemAt reads it, MemSet writes it and
  keeps the representation canonical, so that two memories are equal as
  values exactly when the arrays are equal.  A program image (a byte slice)
  is kept the same way, with its length.  Addresses and the registers keep
  their width: ip, rp and the operand are taken modulo U16, bytes modulo U8.

  A Rust panic ends the process: the model records its cause in the field
  fault of the core and the driver moves to pc = "panic".
*)
EXTENDS Integers, Sequences, FiniteSets

(* ------------------------------------------------------------------ *)
(* Program constants                                                  *)
(* ------------------------------------------------------------------ *)
OP_HALT == 0
OP_RET == 1
OP_SHL == 2
OP_SHR == 3
OP_ROL == 4
OP_ROR == 5
OP_NAND == 6
OP_AND == 7
OP_OR == 8
OP_XOR == 9
OP_LOAD == 10
OP_STOR == 11
OP_BREQ == 12
OP_BRNE == 13
OP_CREQ == 14
OP_CRNE == 15

\* u16::MAX as usize: the length of the memory array (valid indices 0..MEM_SIZE-1)
MEM_SIZE == 65535
\* the address of the character device
DEV_CHAR == 65535
\* the number of values of a u16 (ip, rp, addr) and of a u8 (r0..r3, memory bytes)
U16 == 65536
U8 == 256

(* ------------------------------------------------------------------ *)
(* Bounds of the model                                                *)
(* ------------------------------------------------------------------ *)
\* input events the run may consume from the keyboard
MaxKeys == 2
\* characters the run may write to the output
MaxOut == 3
\* calls of step() a caller other than main may make on a halted Core
MaxHaltedSteps == 2

(* ------------------------------------------------------------------ *)
(* Panics                                                             *)
(* ------------------------------------------------------------------ *)
NoFault == "none"
IndexOutOfBounds == "index out of bounds"
SliceOutOfRange == "range end index out of range for slice"
NoSuchRegister == "No such register"
CtrlCPressed == "Ctrl+C Pressed"
UnwrapErr == "called Result::unwrap() on an Err value"
NotAValidCharacter == "Not a valid character"
Unreachable == "entered unreachable code"

(* ------------------------------------------------------------------ *)
(* Memory and images                                                  *)
(* ------------------------------------------------------------------ *)
\* memory[a] for an index inside the array
MemAt(m, a) == IF a \in DOMAIN m THEN m[a] ELSE 0

\* memory[a] = v for an index inside the array
MemSet(m, a, v) ==
    IF v = 0
    THEN [x \in DOMAIN m \ {a} |-> m[x]]
    ELSE [x \in DOMAIN m \cup {a} |-> IF x = a THEN v ELSE m[x]]

\* [0; MEM_SIZE]
ZeroMemory == [x \in {} |-> 0]

\* data[i] of an image
ImageAt(data, i) == IF i \in DOMAIN data.at THEN data.at[i] ELSE 0

(* ------------------------------------------------------------------ *)
(* Registers                                                          *)
(* ------------------------------------------------------------------ *)
Registers_new == [ip |-> 0, rp |-> 0, r0 |-> 0, r1 |-> 0, r2 |-> 0, r3 |-> 0]

\* the selectors Registers::get and Registers::set accept
RegisterExists(r) == r \in {0, 1, 2, 3}

Registers_get(rg, r) ==
    CASE r = 0 -> rg.r0
      [] r = 1 -> rg.r1
      [] r = 2 -> rg.r2
      [] r = 3 -> rg.r3

Registers_set(rg, r, value) ==
    CASE r = 0 -> [rg EXCEPT !.r0 = value]
      [] r = 1 -> [rg EXCEPT !.r1 = value]
      [] r = 2 -> [rg EXCEPT !.r2 = value]
      [] r = 3 -> [rg EXCEPT !.r3 = value]

(* ------------------------------------------------------------------ *)
(* u8 arithmetic                                                      *)
(* ------------------------------------------------------------------ *)
wrapping_shl1(v) == (v * 2) % U8
wrapping_shr1(v) == v \div 2
\* a shift where the rotation is meant
rotate_left1_shift(v) == (v * 2) % U8
rotate_left1(v) == ((v * 2) % U8) + (v \div 128)
rotate_right1(v) == (v \div 2) + ((v % 2) * 128)

RECURSIVE BitAndN(_, _, _)
BitAndN(a, b, n) ==
    IF n = 0 THEN 0
    ELSE (IF a % 2 = 1 /\ b % 2 = 1 THEN 1 ELSE 0)
         + 2 * BitAndN(a \div 2, b \div 2, n - 1)

RECURSIVE BitOrN(_, _, _)
BitOrN(a, b, n) ==
    IF n = 0 THEN 0
    ELSE (IF a % 2 = 1 \/ b % 2 = 1 THEN 1 ELSE 0)
         + 2 * BitOrN(a \div 2, b \div 2, n - 1)

RECURSIVE BitXorN(_, _, _)
BitXorN(a, b, n) ==
    IF n = 0 THEN 0
    ELSE (IF a % 2 # b % 2 THEN 1 ELSE 0)
         + 2 * BitXorN(a \div 2, b \div 2, n - 1)

\* the operators &, |, ^ and ! on u8
BitAnd(a, b) == BitAndN(a, b, 8)
BitOr(a, b) == BitOrN(a, b, 8)
BitXor(a, b) == BitXorN(a, b, 8)
BitNot(a) == (U8 - 1) - a

(* ------------------------------------------------------------------ *)
(* The Core                                                           *)
(* ------------------------------------------------------------------ *)
\* the line "OP=.. A=.. B=.. ADDR=.." before any instruction was decoded
NoLog == [opcode |-> -1, r_a |-> -1, r_b |-> -1, addr |-> -1]

\* the answer of keys.next() before read_key was ever called
NoKey == [kind |-> "none", ch |-> 0]

\* Core::new: the fields of a Core (keys: the input events taken from the
\* keyboard so far; key: the last answer of keys.next(); out: the characters
\* written to the output so far; log: the last decode line written to the
\* error stream; fault: the panic that ended the process, if any)
Core_new ==
    [memory |-> ZeroMemory, regs |-> Registers_new, is_halted |-> FALSE,
     keys |-> 0, key |-> NoKey, out |-> << >>, log |-> NoLog, fault |-> NoFault]

Panic(c, cause) == [c EXCEPT !.fault = cause]

\* what the next call of keys.next() can deliver: a key, the end of the
\* input (None) or a read error
KeyEvents ==
    {[kind |-> "Char", ch |-> 65], [kind |-> "Char", ch |-> 165],
     [kind |-> "Char", ch |-> 255], [kind |-> "Char", ch |-> 321],
     [kind |-> "Ctrl", ch |-> 99], [kind |-> "Backspace", ch |-> 0],
     [kind |-> "Esc", ch |-> 0], [kind |-> "Null", ch |-> 0],
     [kind |-> "End", ch |-> 0], [kind |-> "Err", ch |-> 0]}

\* the character read_key maps a key to
KeyChar(ev) ==
    CASE ev.kind = "Char" -> ev.ch
      [] ev.kind = "Backspace" -> 8
      [] ev.kind = "Esc" -> 27
      [] OTHER -> 0

IsChar_ascii(value) == value \in 0..127

\* char::from_u32(value) is Some
IsChar(value) == value \in 0..55295 \/ value \in 57344..1114111

read_key_lenient(c, ev) ==
    LET taken == IF ev.kind = "End" THEN [c EXCEPT !.key = ev]
                 ELSE [c EXCEPT !.keys = @ + 1, !.key = ev]
    IN  IF ev.kind = "Err"
        THEN [core |-> Panic(taken, UnwrapErr), value |-> 0]
        ELSE [core |-> [taken EXCEPT !.out = Append(@, KeyChar(ev))],
              value |-> KeyChar(ev)]

\* Core::read_key with ev the answer of keys.next(): the core after it and
\* the character returned
read_key(c, ev) ==
    LET taken == IF ev.kind = "End" THEN [c EXCEPT !.key = ev]
                 ELSE [c EXCEPT !.keys = @ + 1, !.key = ev]
    IN  IF ev.kind = "Err"
        THEN [core |-> Panic(taken, UnwrapErr), value |-> 0]
        ELSE IF ev.kind = "Ctrl" /\ ev.ch = 99
        THEN [core |-> Panic(taken, CtrlCPressed), value |-> 0]
        ELSE [core |-> [taken EXCEPT !.out = Append(@, KeyChar(ev))],
              value |-> KeyChar(ev)]

\* Core::mem_write
mem_write_next(c, addr, value) ==
    IF addr = DEV_CHAR
    THEN IF IsChar(value)
         THEN [c EXCEPT !.out = Append(@, value)]
         ELSE Panic(c, NotAValidCharacter)
    ELSE IF addr < MEM_SIZE
         THEN [c EXCEPT !.memory = MemSet(@, (addr + 1) % MEM_SIZE, value)]
         ELSE Panic(c, IndexOutOfBounds)

mem_write_silent(c, addr, value) ==
    IF addr = DEV_CHAR
    THEN c
    ELSE IF addr < MEM_SIZE
         THEN [c EXCEPT !.memory = MemSet(@, addr, value)]
         ELSE Panic(c, IndexOutOfBounds)

mem_write(c, addr, value) ==
    IF addr = DEV_CHAR
    THEN IF IsChar(value)
         THEN [c EXCEPT !.out = Append(@, value)]
         ELSE Panic(c, NotAValidCharacter)
    ELSE IF addr < MEM_SIZE
         THEN [c EXCEPT !.memory = MemSet(@, addr, value)]
         ELSE Panic(c, IndexOutOfBounds)

\* a storage read that echoes the byte it reads
mem_read_echo(c, addr, ev) ==
    IF addr = DEV_CHAR
    THEN LET k == read_key(c, ev)
         IN  [core |-> k.core, value |-> k.value % U8]
    ELSE [core |-> [c EXCEPT !.out = Append(@, MemAt(c.memory, addr))],
          value |-> MemAt(c.memory, addr)]

\* Core::mem_read: the core after it and the byte returned (the character
\* of read_key cast to u8)
mem_read(c, addr, ev) ==
    IF addr = DEV_CHAR
    THEN LET k == read_key(c, ev)
         IN  [core |-> k.core, value |-> k.value % U8]
    ELSE IF addr < MEM_SIZE
         THEN [core |-> c, value |-> MemAt(c.memory, addr)]
         ELSE [core |-> Panic(c, IndexOutOfBounds), value |-> 0]

\* a load that copies what fits and drops the rest
load_truncating(c, data) ==
    [c EXCEPT !.memory =
        [a \in {x \in DOMAIN c.memory : x >= data.len}
               \cup {x \in DOMAIN data.at : x < MEM_SIZE}
           |-> IF a < data.len THEN data.at[a] ELSE c.memory[a]]]

\* Core::load: memory[..data.len()].copy_from_slice(data)
load(c, data) ==
    IF data.len > MEM_SIZE
    THEN Panic(c, SliceOutOfRange)
    ELSE [c EXCEPT !.memory =
            [a \in {x \in DOMAIN c.memory : x >= data.len} \cup DOMAIN data.at
               |-> IF a < data.len THEN data.at[a] ELSE c.memory[a]]]

\* Core::next_byte: the core after it and the byte fetched
next_byte_device(c) ==
    IF c.regs.ip < MEM_SIZE
    THEN [core |-> [c EXCEPT !.regs.ip = (@ + 1) % U16],
          value |-> MemAt(c.memory, c.regs.ip)]
    ELSE [core |-> [c EXCEPT !.regs.ip = (@ + 1) % U16, !.out = Append(@, 0)],
          value |-> 0]

next_byte(c) ==
    IF c.regs.ip < MEM_SIZE
    THEN [core |-> [c EXCEPT !.regs.ip = (@ + 1) % U16],
          value |-> MemAt(c.memory, c.regs.ip)]
    ELSE [core |-> Panic(c, IndexOutOfBounds), value |-> 0]

\* Core::next_short
next_short(c) ==
    LET a == next_byte(c)
    IN  IF a.core.fault # NoFault THEN a
        ELSE LET b == next_byte(a.core)
             IN  [core |-> b.core, value |-> a.value * 256 + b.value]

\* the decoding of an instruction byte
Opcode_low(instr) == instr % 16
Opcode(instr) == (instr \div 16) % 16
RegA(instr) == (instr \div 4) % 4
RegB(instr) == instr % 4
\* the comparison off by one: XOR takes an operand too
HasOperand_from_xor(opcode) == opcode >= OP_XOR
HasOperand(opcode) == opcode > OP_XOR

(* ------------------------------------------------------------------ *)
(* The arms of the match in Core::step                                *)
(* ------------------------------------------------------------------ *)
\* regs.get(r) panics for a selector that names no register
Checked(c, rs, result) ==
    IF \A r \in rs : RegisterExists(r) THEN result ELSE Panic(c, NoSuchRegister)

op_halt(c) == [c EXCEPT !.is_halted = TRUE]

\* the assignment reversed
op_ret_reversed(c) == [c EXCEPT !.regs.rp = c.regs.ip]

op_ret(c) == [c EXCEPT !.regs.ip = c.regs.rp]

op_shl(c, r_a) ==
    Checked(c, {r_a},
        [c EXCEPT !.regs = Registers_set(@, r_a, wrapping_shl1(Registers_get(@, r_a)))])

op_shr(c, r_a) ==
    Checked(c, {r_a},
        [c EXCEPT !.regs = Registers_set(@, r_a, wrapping_shr1(Registers_get(@, r_a)))])

op_rol(c, r_a) ==
    Checked(c, {r_a},
        [c EXCEPT !.regs = Registers_set(@, r_a, rotate_left1(Registers_get(@, r_a)))])

op_ror(c, r_a) ==
    Checked(c, {r_a},
        [c EXCEPT !.regs = Registers_set(@, r_a, rotate_right1(Registers_get(@, r_a)))])

\* the negation forgotten
op_nand_plain(c, r_a, r_b) ==
    Checked(c, {r_a, r_b},
        [c EXCEPT !.regs = Registers_set(@, r_a,
            BitAnd(Registers_get(@, r_a), Registers_get(@, r_b)))])

op_nand(c, r_a, r_b) ==
    Checked(c, {r_a, r_b},
        [c EXCEPT !.regs = Registers_set(@, r_a,
            BitNot(BitAnd(Registers_get(@, r_a), Registers_get(@, r_b))))])

op_and(c, r_a, r_b) ==
    Checked(c, {r_a, r_b},
        [c EXCEPT !.regs = Registers_set(@, r_a,
            BitAnd(Registers_get(@, r_a), Registers_get(@, r_b)))])

op_or(c, r_a, r_b) ==
    Checked(c, {r_a, r_b},
        [c EXCEPT !.regs = Registers_set(@, r_a,
            BitOr(Registers_get(@, r_a), Registers_get(@, r_b)))])

op_xor_into_b(c, r_a, r_b) ==
    Checked(c, {r_a, r_b},
        [c EXCEPT !.regs = Registers_set(@, r_b,
            BitXor(Registers_get(@, r_a), Registers_get(@, r_b)))])

op_xor(c, r_a, r_b) ==
    Checked(c, {r_a, r_b},
        [c EXCEPT !.regs = Registers_set(@, r_a,
            BitXor(Registers_get(@, r_a), Registers_get(@, r_b)))])

op_load(c, r_a, addr, ev) ==
    LET m == mem_read(c, addr, ev)
    IN  IF m.core.fault # NoFault THEN m.core
        ELSE Checked(m.core, {r_a},
                 [m.core EXCEPT !.regs = Registers_set(@, r_a, m.value)])

op_stor(c, r_a, addr) ==
    Checked(c, {r_a}, mem_write(c, addr, Registers_get(c.regs, r_a)))

op_creq_early(c, r_a, r_b, addr) ==
    Checked(c, {r_a, r_b},
        IF Registers_get(c.regs, r_a) = Registers_get(c.regs, r_b)
        THEN [c EXCEPT !.regs.rp = (c.regs.ip + U16 - 2) % U16, !.regs.ip = addr]
        ELSE c)

op_creq(c, r_a, r_b, addr) ==
    Checked(c, {r_a, r_b},
        IF Registers_get(c.regs, r_a) = Registers_get(c.regs, r_b)
        THEN [c EXCEPT !.regs.rp = c.regs.ip, !.regs.ip = addr]
        ELSE c)

op_crne(c, r_a, r_b, addr) ==
    Checked(c, {r_a, r_b},
        IF Registers_get(c.regs, r_a) # Registers_get(c.regs, r_b)
        THEN [c EXCEPT !.regs.rp = c.regs.ip, !.regs.ip = addr]
        ELSE c)

op_breq(c, r_a, r_b, addr) ==
    Checked(c, {r_a, r_b},
        IF Registers_get(c.regs, r_a) = Registers_get(c.regs, r_b)
        THEN [c EXCEPT !.regs.ip = addr]
        ELSE c)

op_brne(c, r_a, r_b, addr) ==
    Checked(c, {r_a, r_b},
        IF Registers_get(c.regs, r_a) # Registers_get(c.regs, r_b)
        THEN [c EXCEPT !.regs.ip = addr]
        ELSE c)

\* match opcode { ... }
execute(c, opcode, r_a, r_b, addr, ev) ==
    CASE opcode = OP_HALT -> op_halt(c)
      [] opcode = OP_RET -> op_ret(c)
      [] opcode = OP_SHL -> op_shl(c, r_a)
      [] opcode = OP_SHR -> op_shr(c, r_a)
      [] opcode = OP_ROL -> op_rol(c, r_a)
      [] opcode = OP_ROR -> op_ror(c, r_a)
      [] opcode = OP_NAND -> op_nand(c, r_a, r_b)
      [] opcode = OP_AND -> op_and(c, r_a, r_b)
      [] opcode = OP_OR -> op_or(c, r_a, r_b)
      [] opcode = OP_XOR -> op_xor(c, r_a, r_b)
      [] opcode = OP_LOAD -> op_load(c, r_a, addr, ev)
      [] opcode = OP_STOR -> op_stor(c, r_a, addr)
      [] opcode = OP_CREQ -> op_creq(c, r_a, r_b, addr)
      [] opcode = OP_CRNE -> op_crne(c, r_a, r_b, addr)
      [] opcode = OP_BREQ -> op_breq(c, r_a, r_b, addr)
      [] opcode = OP_BRNE -> op_brne(c, r_a, r_b, addr)
      [] OTHER -> Panic(c, Unreachable)

\* the operand of an instruction: next_short() for an opcode above OP_XOR
fetch_operand(c, opcode) ==
    IF HasOperand(opcode) THEN next_short(c) ELSE [core |-> c, value |-> 0]

\* Core::step, with ev the input event a device read of this step receives
step(c, ev) ==
    LET f == next_byte(c)
    IN  IF f.core.fault # NoFault THEN f.core
        ELSE LET instr == f.value
                 opcode == Opcode(instr)
                 r_a == RegA(instr)
                 r_b == RegB(instr)
                 o == fetch_operand(f.core, opcode)
             IN  IF o.core.fault # NoFault THEN o.core
                 ELSE execute(
                        [o.core EXCEPT !.log = [opcode |-> opcode, r_a |-> r_a,
                                                r_b |-> r_b, addr |-> o.value]],
                        opcode, r_a, r_b, o.value, ev)

(* ------------------------------------------------------------------ *)
(* Program images                                                     *)
(* ------------------------------------------------------------------ *)
\* an instruction byte, and the two bytes of a big-endian operand
Enc(opcode, r_a, r_b) == opcode * 16 + r_a * 4 + r_b
Hi(addr) == addr \div 256
Lo(addr) == addr % 256

\* an instruction with its operand bytes, if its opcode takes an operand
Instr(instr, addr) ==
    IF HasOperand(Opcode(instr)) THEN << instr, Hi(addr), Lo(addr) >> ELSE << instr >>

Covers(f, a) == a >= f.base /\ a < f.base + Len(f.bytes)

\* the image of length len made of the byte sequences frags (each with its
\* base offset), zero elsewhere
ImageOf(len, frags) ==
    LET ByteIn(a) == LET f == CHOOSE g \in frags : Covers(g, a)
                     IN  f.bytes[a - f.base + 1]
        used == UNION {f.base .. (f.base + Len(f.bytes) - 1) : f \in frags}
    IN  [len |-> len,
         at |-> [a \in {x \in used : ByteIn(x) # 0} |-> ByteIn(a)]]

\* LOAD r0,[DEV_CHAR]; LOAD r1,[12]
Prologue ==
    Instr(Enc(OP_LOAD, 0, 0), DEV_CHAR) \o Instr(Enc(OP_LOAD, 1, 0), 12)

\* the operand addresses of the instructions under test: inside the
\* program, the address after the instruction, the last byte of the memory
\* array, and the device
Operands == {3, 9, MEM_SIZE - 1, DEV_CHAR}

\* r0 read from the keyboard and r1 from the data byte, then any
\* instruction byte with any of the operands, then zeros and the data byte
GeneralImages ==
    {LET bytes == Prologue \o Instr(i, addr)
     IN  ImageOf(13, {[base |-> 0, bytes |-> bytes],
                      [base |-> 12, bytes |-> << d >>]}) :
        i \in 0 .. (U8 - 1), addr \in Operands, d \in {65, 165}}

\* a register loaded with any byte, then the same shift or rotate 8 times
ShiftImages ==
    {LET bytes == Instr(Enc(OP_LOAD, r, 0), 11) \o [k \in 1..8 |-> Enc(opcode, r, 0)]
     IN  ImageOf(12, {[base |-> 0, bytes |-> bytes], [base |-> 11, bytes |-> << d >>]}) :
        opcode \in OP_SHL .. OP_ROR, r \in {0, 3}, d \in 0 .. (U8 - 1)}

\* byte values with every pair of bits at some position of some pair
ByteSamples == {0, 1, 15, 85, 127, 128, 170, 240, 254, 255}

\* two registers loaded with bytes, then a bitwise instruction on two
\* registers or on one
LogicImages ==
    {LET bytes == Instr(Enc(OP_LOAD, 2, 0), 7) \o Instr(Enc(OP_LOAD, 3, 0), 8)
                  \o << Enc(opcode, 2, r_b), a, b >>
     IN  ImageOf(9, {[base |-> 0, bytes |-> bytes]}) :
        opcode \in OP_NAND .. OP_XOR, r_b \in {2, 3},
        a \in ByteSamples, b \in ByteSamples}

\* r0 read from the keyboard, a conditional call of the routine at 9, which
\* is a RET with any selector bits
CallImages ==
    {LET bytes == Instr(Enc(OP_LOAD, 0, 0), DEV_CHAR) \o Instr(Enc(opcode, 0, 1), 9)
                  \o << 0, 0, 0, Enc(OP_RET, r_a, r_b) >>
     IN  ImageOf(Len(bytes), {[base |-> 0, bytes |-> bytes]}) :
        opcode \in {OP_CREQ, OP_CRNE}, r_a \in {0, 3}, r_b \in {0, 2}}

\* r1 read from the keyboard and a jump to an instruction in the last
\* bytes of the memory array; the image is cut at the length of the array
HighImages ==
    {LET low == Instr(Enc(OP_LOAD, 1, 0), DEV_CHAR) \o Instr(Enc(OP_BREQ, 0, 0), h)
         ins == Instr(Enc(opcode, 0, 1), 6)
         high == SubSeq(ins, 1, IF Len(ins) < MEM_SIZE - h THEN Len(ins)
                                ELSE MEM_SIZE - h)
     IN  ImageOf(MEM_SIZE, {[base |-> 0, bytes |-> low],
                            [base |-> h, bytes |-> high]}) :
        opcode \in OP_HALT .. OP_CRNE, h \in (MEM_SIZE - 3) .. (MEM_SIZE - 1)}

\* an image one byte longer than the memory array
OversizeImages ==
    {ImageOf(MEM_SIZE + 1, {[base |-> MEM_SIZE, bytes |-> << 65 >>]})}

\* LOAD r0,[5]; STOR r0,[DEV_CHAR]; HALT: offset 5 is the low operand byte
\* of the STOR
ScenarioImage ==
    LET bytes == Instr(Enc(OP_LOAD, 0, 0), 5) \o Instr(Enc(OP_STOR, 0, 0), DEV_CHAR)
                 \o << Enc(OP_HALT, 0, 0) >>
    IN  ImageOf(Len(bytes), {[base |-> 0, bytes |-> bytes]})

\* the same bytes with 0x41 at offset 5
\* the scenario's image with the byte d at offset 5
ScenarioWith(d) ==
    LET bytes == Instr(Enc(OP_LOAD, 0, 0), 5) \o << Enc(OP_STOR, 0, 0), 255, d >>
                 \o << Enc(OP_HALT, 0, 0) >>
    IN  ImageOf(Len(bytes), {[base |-> 0, bytes |-> bytes]})

ScenarioImages == { ScenarioWith(d) : d \in 0 .. 255 }

ScenarioImage41 ==
    LET bytes == Instr(Enc(OP_LOAD, 0, 0), 5) \o << Enc(OP_STOR, 0, 0), Hi(DEV_CHAR), 65 >>
                 \o << Enc(OP_HALT, 0, 0) >>
    IN  ImageOf(Len(bytes), {[base |-> 0, bytes |-> bytes]})

\* r1 read from the keyboard, a jump to a conditional call in the last
\* bytes of the memory array, and the routine at 6, which is a RET
HighCallImages ==
    {LET low == Instr(Enc(OP_LOAD, 1, 0), DEV_CHAR)
                \o Instr(Enc(OP_BREQ, 0, 0), MEM_SIZE - 3)
                \o << Enc(OP_RET, 0, 0) >>
     IN  ImageOf(MEM_SIZE, {[base |-> 0, bytes |-> low],
                            [base |-> MEM_SIZE - 3,
                             bytes |-> Instr(Enc(opcode, 0, 1), 6)]}) :
        opcode \in {OP_CREQ, OP_CRNE}}

\* r0 loaded with any byte and stored to the device
StorImages ==
    {LET bytes == Instr(Enc(OP_LOAD, 0, 0), 7) \o Instr(Enc(OP_STOR, 0, 0), DEV_CHAR)
                  \o << Enc(OP_HALT, 0, 0), d >>
     IN  ImageOf(Len(bytes), {[base |-> 0, bytes |-> bytes]}) :
        d \in 0 .. (U8 - 1)}

Images ==
    GeneralImages \cup ShiftImages \cup LogicImages \cup CallImages
    \cup HighImages \cup OversizeImages
    \cup {ScenarioImage, ScenarioImage41} \cup HighCallImages \cup StorImages

(* ------------------------------------------------------------------ *)
(* The state machine                                                  *)
(* ------------------------------------------------------------------ *)
VARIABLES
    core,          \* the Core of main
    pc,            \* where main is: "new", "run", "done", or "panic"
    streak,        \* the run of identical shift/rotate instructions just executed
    halted_steps,  \* calls of step() made on the Core while it was halted
    buffer,        \* the image main read from the file
    call_site      \* the address of the last taken CREQ or CRNE, or -1

vars == << core, pc, streak, halted_steps, buffer, call_site >>

\* Vec::new(): the buffer of main before the file is read
EmptyBuffer == [len |-> 0, at |-> ZeroMemory]

\* the call site after a completed step that executed instr at address p
\* on the registers rg
NextCallSite(site, instr, p, rg) ==
    IF \/ Opcode(instr) = OP_CREQ
          /\ Registers_get(rg, RegA(instr)) = Registers_get(rg, RegB(instr))
       \/ Opcode(instr) = OP_CRNE
          /\ Registers_get(rg, RegA(instr)) # Registers_get(rg, RegB(instr))
    THEN p
    ELSE site

NoStreak == [instr |-> -1, count |-> 0, orig |-> 0]

IsShift(opcode) == opcode \in {OP_SHL, OP_SHR, OP_ROL, OP_ROR}

\* the streak after a completed step that executed instr on the registers rg
NextStreak(st, instr, rg) ==
    IF ~IsShift(Opcode(instr)) THEN NoStreak
    ELSE IF st.instr = instr /\ st.count < 8
         THEN [st EXCEPT !.count = @ + 1]
         ELSE [instr |-> instr, count |-> 1, orig |-> Registers_get(rg, RegA(instr))]

\* the next step is a LOAD from the device: it calls read_key
ReadsDevice(c) ==
    LET f == next_byte(c)
        o == fetch_operand(f.core, Opcode(f.value))
    IN  /\ f.core.fault = NoFault
        /\ o.core.fault = NoFault
        /\ Opcode(f.value) = OP_LOAD
        /\ o.value = DEV_CHAR

\* the event of a step that does not read the keyboard
NoEvent == [kind |-> "End", ch |-> 0]

Init ==
    /\ core = Core_new
    /\ pc = "new"
    /\ streak = NoStreak
    /\ halted_steps = 0
    /\ buffer = EmptyBuffer
    /\ call_site = -1

\* file.read_to_end(&mut buffer); core.load(&buffer) in main, for any
\* image file
main_load_of(images) ==
    /\ pc = "new"
    /\ \E data \in images :
         /\ buffer' = data
         /\ core' = load(core, data)
         /\ pc' = IF core'.fault # NoFault THEN "panic" ELSE "run"
    /\ UNCHANGED << streak, halted_steps, call_site >>

main_load == main_load_of(Images)

\* one call core.step(), the keyboard answering ev if the step reads it
call_step(ev) ==
    LET c == step(core, ev)
    IN  /\ c.keys <= MaxKeys
        /\ Len(c.out) <= MaxOut
        /\ core' = c
        /\ pc' = IF c.fault # NoFault THEN "panic" ELSE "run"
        /\ streak' = IF c.fault # NoFault THEN NoStreak
                     ELSE NextStreak(streak, MemAt(core.memory, core.regs.ip), core.regs)
        /\ halted_steps' = IF core.is_halted THEN halted_steps + 1 ELSE halted_steps
        /\ call_site' = IF c.fault # NoFault THEN call_site
                        ELSE NextCallSite(call_site, MemAt(core.memory, core.regs.ip),
                                          core.regs.ip, core.regs)
        /\ UNCHANGED buffer

\* the events the next step can receive: any, if it reads the device
Incoming == IF ReadsDevice(core) THEN KeyEvents ELSE {NoEvent}

\* the loop without its condition
main_loop_unconditional ==
    /\ pc = "run"
    /\ \E ev \in Incoming : call_step(ev)

\* while !core.is_halted { core.step(); }
main_loop ==
    /\ pc = "run"
    /\ ~core.is_halted
    /\ \E ev \in Incoming : call_step(ev)

\* the loop of main ends
main_exit ==
    /\ pc = "run"
    /\ core.is_halted
    /\ pc' = "done"
    /\ UNCHANGED << core, streak, halted_steps, buffer, call_site >>

Next == main_load \/ main_loop \/ main_exit

Spec == Init /\ [][Next]_vars

\* main runs: the single thread takes the next step of its loop whenever
\* there is one (a step that reads the device has its input event)
main_scenario == main_load_of(ScenarioImages)

NextScenario == main_scenario \/ main_loop \/ main_exit

SpecScenario ==
    Init /\ [][NextScenario]_vars /\ WF_vars(main_loop) /\ WF_vars(main_exit)

\* Core::step called by any caller of the public method, halted or not
any_step ==
    /\ pc = "run"
    /\ core.is_halted => halted_steps < MaxHaltedSteps
    /\ \E ev \in Incoming : call_step(ev)

NextCore == main_load \/ any_step

SpecCore == Init /\ [][NextCore]_vars

(* ------------------------------------------------------------------ *)
(* Properties                                                         *)
(* ------------------------------------------------------------------ *)
\* a transition that is one call of step(): it returns or it panics
IsStep == pc = "run" /\ pc' \in {"run", "panic"}

\* the state before a step, read from the fields themselves: the
\* instruction byte at ip, if ip is an index of the memory array, its
\* fields, and the big-endian operand in the two bytes after it
IpInMemory == core.regs.ip < MEM_SIZE
CurInstr == MemAt(core.memory, core.regs.ip)
CurOp == (CurInstr \div 16) % 16
CurA == (CurInstr \div 4) % 4
CurB == CurInstr % 4
CurValA == Registers_get(core.regs, CurA)
CurValB == Registers_get(core.regs, CurB)
CurOperand ==
    MemAt(core.memory, (core.regs.ip + 1) % U16) * 256
    + MemAt(core.memory, (core.regs.ip + 2) % U16)
AfterOpcode == (core.regs.ip + 1) % U16
AfterOperand == (core.regs.ip + 3) % U16

\* the condition of a branch or call holds
CurTaken ==
    \/ CurOp \in {OP_BREQ, OP_CREQ} /\ CurValA = CurValB
    \/ CurOp \in {OP_BRNE, OP_CRNE} /\ CurValA # CurValB

\* C1: in every state, one step() of BREQ, BRNE, CREQ or CRNE completes
\* and leaves ip at the operand address if the condition on reg_a and
\* reg_b holds and at the address after the operand otherwise; rp becomes
\* the address after the operand in a taken CREQ or CRNE and is unchanged
\* in every other case.
C1_Branches ==
    [][(IsStep /\ IpInMemory /\ CurOp \in {OP_BREQ, OP_BRNE, OP_CREQ, OP_CRNE})
        => /\ pc' = "run"
           /\ core'.regs.ip = IF CurTaken THEN CurOperand ELSE AfterOperand
           /\ core'.regs.rp = IF CurTaken /\ CurOp \in {OP_CREQ, OP_CRNE}
                              THEN AfterOperand ELSE core.regs.rp]_vars

\* the statement of C1 for the instructions whose operand bytes lie inside
\* the memory array
C1_BranchesInside ==
    [][(IsStep /\ core.regs.ip + 2 < MEM_SIZE
        /\ CurOp \in {OP_BREQ, OP_BRNE, OP_CREQ, OP_CRNE})
        => /\ pc' = "run"
           /\ core'.regs.ip = IF CurTaken THEN CurOperand ELSE AfterOperand
           /\ core'.regs.rp = IF CurTaken /\ CurOp \in {OP_CREQ, OP_CRNE}
                              THEN AfterOperand ELSE core.regs.rp]_vars

\* C2: no memory access of step() faults, whatever the address: the
\* process never ends with an index out of the bounds of the memory array.
C2_NoFault == core.fault # IndexOutOfBounds

\* C3: a step() called on a halted Core leaves the registers, the memory,
\* the halted flag and the input and output unchanged.
C3_HaltedStepNoOp ==
    [][(IsStep /\ core.is_halted)
        => /\ core'.regs = core.regs
           /\ core'.memory = core.memory
           /\ core'.is_halted = core.is_halted
           /\ core'.out = core.out
           /\ core'.keys = core.keys]_vars

\* C4: is_halted is false initially, becomes true only in a step whose
\* opcode is HALT, is never reset, and in the loop of main nothing is
\* executed on the Core after the step that executed HALT.
C4_HaltedOnlyByHalt ==
    /\ ~core.is_halted
    /\ [][/\ (~core.is_halted /\ core'.is_halted)
              => (IsStep /\ IpInMemory /\ CurOp = OP_HALT)
          /\ core.is_halted => (core'.is_halted /\ core' = core)]_vars

\* main has left its loop after a HALT
C4_Witness ==
    pc = "done" /\ core.is_halted /\ core.log.opcode = OP_HALT /\ core.regs.ip > 6

\* C5: one step() of an opcode without operand (HALT .. XOR) advances ip
\* by exactly 1 modulo 65536 (RET then sets it to rp) and leaves rp and the
\* whole memory unchanged.
C5_NoOperandStep ==
    [][(IsStep /\ IpInMemory /\ CurOp \in OP_HALT .. OP_XOR)
        => /\ pc' = "run"
           /\ core'.regs.ip = IF CurOp = OP_RET THEN core.regs.rp ELSE AfterOpcode
           /\ core'.regs.rp = core.regs.rp
           /\ core'.memory = core.memory]_vars

\* XOR r0,r1 at address 6 was executed
C5_Witness ==
    /\ pc = "run"
    /\ core.log = [opcode |-> OP_XOR, r_a |-> 0, r_b |-> 1, addr |-> 0]
    /\ core.regs.ip = 7
    /\ core.regs.r0 # 0

\* C6: one step() of an opcode above XOR completes having advanced ip by
\* exactly 3 modulo 65536 before any redirection (ip, or rp of a taken
\* call, is the address after the operand) and decodes the two bytes after
\* the opcode as the operand; an opcode up to XOR consumes no operand byte.
C6_OperandStep ==
    [][(IsStep /\ IpInMemory)
        => IF CurOp > OP_XOR
           THEN /\ core'.fault # IndexOutOfBounds
                /\ (core'.fault = NoFault => core'.log.addr = CurOperand)
                /\ (core'.fault = NoFault /\ ~CurTaken
                      => core'.regs.ip = AfterOperand)
                /\ (core'.fault = NoFault /\ CurTaken
                      /\ CurOp \in {OP_CREQ, OP_CRNE}
                      => core'.regs.rp = AfterOperand)
           ELSE core'.regs.ip = IF CurOp = OP_RET THEN core.regs.rp
                                ELSE AfterOpcode]_vars

\* the statement of C6 for the instructions whose operand bytes lie inside
\* the memory array
C6_OperandStepInside ==
    [][(IsStep /\ core.regs.ip + 2 < MEM_SIZE /\ CurOp > OP_XOR)
        => /\ core'.fault # IndexOutOfBounds
           /\ (core'.fault = NoFault => core'.log.addr = CurOperand)
           /\ (core'.fault = NoFault /\ (CurOp \in {OP_LOAD, OP_STOR} \/ ~CurTaken)
                 => core'.regs.ip = AfterOperand)
           /\ (core'.fault = NoFault /\ CurTaken /\ CurOp \in {OP_CREQ, OP_CRNE}
                 => core'.regs.rp = AfterOperand)]_vars

\* the instruction of the streak and the register it works on
StreakOp == (streak.instr \div 16) % 16
StreakReg == Registers_get(core.regs, (streak.instr \div 4) % 4)

\* C7 as stated: after the same SHL, SHR, ROL or ROR was executed 8 times
\* in a row on a register, the register has its original value again.
C7_Period8 == streak.count = 8 => StreakReg = streak.orig

\* C7, amended: after 8 identical ROL or ROR in a row the register has its
\* original value again; after 8 identical SHL or SHR in a row it is 0.
C7_RotatePeriod8 ==
    streak.count = 8
      => StreakReg = IF StreakOp \in {OP_ROL, OP_ROR} THEN streak.orig ELSE 0

\* ROL was executed 8 times on a register that held 0xA5
C7_Witness ==
    streak.count = 8 /\ StreakOp = OP_ROL /\ streak.orig = 165 /\ StreakReg = 165

\* bit i of a byte, and the truth tables
Bit(x, i) == (x \div (2 ^ i)) % 2
TruthTable(opcode, x, y) ==
    CASE opcode = OP_AND -> IF x = 1 /\ y = 1 THEN 1 ELSE 0
      [] opcode = OP_OR -> IF x = 1 \/ y = 1 THEN 1 ELSE 0
      [] opcode = OP_XOR -> IF x # y THEN 1 ELSE 0
      [] opcode = OP_NAND -> IF x = 1 /\ y = 1 THEN 0 ELSE 1

\* C8: one step() of NAND, AND, OR or XOR leaves in reg_a the byte whose
\* every bit is the truth table's value for the bits that reg_a and reg_b
\* held before the step, also when both selectors name one register.
C8_Bitwise ==
    [][(IsStep /\ IpInMemory /\ CurOp \in {OP_NAND, OP_AND, OP_OR, OP_XOR})
        => /\ pc' = "run"
           /\ Registers_get(core'.regs, CurA) \in 0 .. (U8 - 1)
           /\ \A i \in 0..7 :
                Bit(Registers_get(core'.regs, CurA), i)
                  = TruthTable(CurOp, Bit(CurValA, i), Bit(CurValB, i))]_vars

\* NAND r2,r3 was executed on 0x0F and 0x55
C8_Witness ==
    /\ pc = "run"
    /\ core.log = [opcode |-> OP_NAND, r_a |-> 2, r_b |-> 3, addr |-> 0]
    /\ core.regs.ip = 7
    /\ core.regs.r2 = 250
    /\ core.regs.r3 = 85
    /\ core.memory[7] = 15

\* C9: one step() of RET sets ip to the value rp had before the step,
\* whatever the selector bits and the registers, and changes neither rp
\* nor r0..r3 nor the memory nor the halted flag.
C9_Ret ==
    [][(IsStep /\ IpInMemory /\ CurOp = OP_RET)
        => /\ pc' = "run"
           /\ core'.regs = [core.regs EXCEPT !.ip = core.regs.rp]
           /\ core'.memory = core.memory
           /\ core'.is_halted = core.is_halted]_vars

\* the RET at 9, with selector bits 3 and 2, returned to 6 after a call
C9_Witness ==
    /\ pc = "run"
    /\ core.log = [opcode |-> OP_RET, r_a |-> 3, r_b |-> 2, addr |-> 0]
    /\ core.regs.ip = 6
    /\ core.regs.rp = 6
    /\ core.regs.r0 = 65

\* C10: a STOR with operand 0xFFFF leaves the memory array unchanged, and
\* a LOAD with an operand other than 0xFFFF consumes no input event and
\* writes nothing to the output.
C10_DeviceFrame ==
    [][(IsStep /\ core.regs.ip + 2 < MEM_SIZE)
        => /\ (CurOp = OP_STOR /\ CurOperand = DEV_CHAR)
                => core'.memory = core.memory
           /\ (CurOp = OP_LOAD /\ CurOperand # DEV_CHAR)
                => (core'.keys = core.keys /\ core'.out = core.out)]_vars

\* r1 was loaded from the byte at 12 and then stored to the device
C10_Witness ==
    /\ pc = "run"
    /\ core.log = [opcode |-> OP_STOR, r_a |-> 1, r_b |-> 0, addr |-> DEV_CHAR]
    /\ core.regs.r1 = 165
    /\ core.keys = 1
    /\ core.out = << 65, 165 >>

\* C11: load() of an image as long as the memory array succeeds and puts
\* image[i] at address i for every i, the last byte at the last index of
\* the array; load() of an image one byte longer (of any longer image) is
\* a panic of the process that leaves the memory as it was.
C11_Load ==
    [][pc = "new"
        => IF buffer'.len <= MEM_SIZE
           THEN /\ pc' = "run"
                /\ core'.fault = NoFault
                /\ \A i \in 0 .. (buffer'.len - 1) :
                     MemAt(core'.memory, i) = ImageAt(buffer', i)
                /\ buffer'.len = MEM_SIZE
                     => MemAt(core'.memory, MEM_SIZE - 1)
                          = ImageAt(buffer', buffer'.len - 1)
           ELSE /\ pc' = "panic"
                /\ core'.fault = SliceOutOfRange
                /\ core'.memory = core.memory]_vars

\* an image as long as the memory array, with CRNE r0,r1 as its last
\* byte, was loaded
C11_Witness ==
    /\ pc = "run"
    /\ core.log = NoLog
    /\ buffer.len = MEM_SIZE
    /\ ImageAt(buffer, MEM_SIZE - 1) = 241
    /\ MemAt(core.memory, MEM_SIZE - 1) = 241

\* C12 as stated: the run of LOAD r0,[5]; STOR r0,[0xFFFF]; HALT, with the
\* byte of the STOR at offset 5 or with 0x41 there, ends having written
\* exactly the character 'A'.
C12_OutputA ==
    (buffer \in {ScenarioImage, ScenarioImage41} /\ pc = "done")
      => core.out = << 65 >>

\* what the scenario's run has written once it has halted, the byte d being
\* at offset 5: the character d when the STOR's operand 0xFF00 + d is the
\* device address, nothing otherwise (d is then in storage at 0xFF00 + d)
ScenarioEnd(d) ==
    IF 65280 + d = DEV_CHAR
    THEN core.out = << d >>
    ELSE core.out = << >> /\ MemAt(core.memory, 65280 + d) = d

\* C12, amended: offset 5 of LOAD r0,[5]; STOR r0,[0xFFFF]; HALT is the low
\* operand byte 0xFF of the STOR: the run consumes no input, writes nothing
\* but the character 0xFF and eventually halts having written exactly it.
\* With another byte d at offset 5 (0x41 for one) the STOR goes to storage
\* at 0xFF00 + d and the run eventually halts having written nothing.
C12_Scenario ==
    /\ [](\A d \in 0 .. 255 :
            buffer = ScenarioWith(d)
              => /\ core.keys = 0
                 /\ core.fault = NoFault
                 /\ core.out \in {<< >>, << 255 >>}
                 /\ core.is_halted => ScenarioEnd(d))
    /\ (buffer = ScenarioImage)
         ~> (pc = "done" /\ core.is_halted /\ core.out = << 255 >>)
    /\ (buffer = ScenarioImage41)
         ~> (pc = "done" /\ core.is_halted /\ core.out = << >>
               /\ MemAt(core.memory, 65345) = 65)

\* the scenario has run to its end
C12_Witness ==
    /\ buffer = ScenarioImage
    /\ pc = "done"
    /\ core.is_halted
    /\ core.regs.r0 = 255
    /\ core.regs.ip = 7
    /\ core.out = << 255 >>

\* the step is a LOAD from the device whose operand bytes are in the array
CurDeviceRead ==
    /\ IsStep
    /\ core.regs.ip + 2 < MEM_SIZE
    /\ CurOp = OP_LOAD
    /\ CurOperand = DEV_CHAR

\* C13 as stated: a device read answered by the end of the input or by the
\* cancel key aborts the run: the step does not complete and reg_a keeps
\* its value.
C13_EndOrCancelFatal ==
    [][(CurDeviceRead /\ core'.key.kind \in {"End", "Ctrl"})
         => /\ pc' = "panic"
            /\ Registers_get(core'.regs, CurA) = CurValA]_vars

\* C13, amended: a device read answered by the cancel key Ctrl+C, or by a
\* read error, aborts the run: no echo, reg_a keeps its value and no step
\* follows the abort. The end of the input is not fatal: it is read as the
\* byte 0, which is echoed and stored in reg_a without an event being
\* consumed, and the run goes on.
C13_CancelFatal ==
    [][/\ pc # "panic"
       /\ (CurDeviceRead /\ core'.key.kind \in {"Ctrl", "Err"})
            => /\ pc' = "panic"
               /\ core'.fault = (IF core'.key.kind = "Ctrl"
                                 THEN CtrlCPressed ELSE UnwrapErr)
               /\ Registers_get(core'.regs, CurA) = CurValA
               /\ core'.out = core.out
       /\ (CurDeviceRead /\ core'.key.kind = "End")
            => /\ pc' = "run"
               /\ core'.fault = NoFault
               /\ Registers_get(core'.regs, CurA) = 0
               /\ core'.out = Append(core.out, 0)
               /\ core'.keys = core.keys]_vars

\* a key was read into r0, then the end of the input
C13_Witness ==
    /\ pc = "run"
    /\ core.key.kind = "End"
    /\ core.keys = 1
    /\ core.out = << 65, 0 >>
    /\ core.regs.r0 = 0
    /\ core.regs.ip = 9

\* the run was cancelled in its second device read
C13_WitnessCancel ==
    /\ pc = "panic"
    /\ core.fault = CtrlCPressed
    /\ core.keys = 2
    /\ core.out = << 65 >>
    /\ core.regs.r0 = 65

\* C14: a RET executed after a taken CREQ/CRNE at address p, the last one
\* taken before it, leaves ip == p + 3 (modulo 65536), the address of the
\* instruction after the call, not an address of its operand bytes.
C14_ReturnAfterCall ==
    [][(IsStep /\ IpInMemory /\ CurOp = OP_RET /\ call_site # -1)
        => /\ pc' = "run"
           /\ core'.regs.ip = (call_site + 3) % U16
           /\ core'.regs.ip \notin {(call_site + 1) % U16,
                                    (call_site + 2) % U16}]_vars

\* the CREQ at 3 was taken and the RET at 9 has returned to 6
C14_Witness ==
    /\ pc = "run"
    /\ call_site = 3
    /\ core.log = [opcode |-> OP_RET, r_a |-> 0, r_b |-> 2, addr |-> 0]
    /\ core.regs.ip = 6
    /\ core.regs.r0 = 0

\* the CRNE at 0xFFFC was taken and the RET at 6 has returned to 0xFFFF
C14_WitnessHigh ==
    /\ pc = "run"
    /\ call_site = MEM_SIZE - 3
    /\ core.log.opcode = OP_RET
    /\ core.regs.ip = MEM_SIZE

\* the addresses whose contents the step changes
ChangedAddresses ==
    {x \in (DOMAIN core.memory) \cup (DOMAIN core'.memory) :
        MemAt(core'.memory, x) # MemAt(core.memory, x)}

\* the step is a STOR whose operand bytes are in the array
CurStor ==
    /\ core.regs.ip + 2 < MEM_SIZE
    /\ CurOp = OP_STOR

\* C15: after load(), a step changes the contents of memory at address a
\* only if it executes STOR with operand a, a # 0xFFFF, and memory[a] is
\* then the value reg_a had before the step; a STOR to a storage address
\* leaves that value there; every other step, a STOR to the device
\* included, leaves the whole memory as it was.
C15_MemoryFrame ==
    [][IsStep
        => /\ \A x \in ChangedAddresses :
                /\ CurStor
                /\ CurOperand = x
                /\ x # DEV_CHAR
                /\ MemAt(core'.memory, x) = CurValA
           /\ (CurStor /\ CurOperand # DEV_CHAR)
                => /\ pc' = "run"
                   /\ MemAt(core'.memory, CurOperand) = CurValA
           /\ ~(CurStor /\ CurOperand # DEV_CHAR)
                => core'.memory = core.memory]_vars

\* STOR r0,[3] has overwritten the opcode byte at 3 with the key read
C15_Witness ==
    /\ pc = "run"
    /\ core.log = [opcode |-> OP_STOR, r_a |-> 0, r_b |-> 0, addr |-> 3]
    /\ core.regs.r0 = 65
    /\ ImageAt(buffer, 3) = Enc(OP_LOAD, 1, 0)
    /\ MemAt(core.memory, 3) = 65
    /\ \A x \in 0 .. 12 : x # 3 => MemAt(core.memory, x) = ImageAt(buffer, x)

\* the opcode table
OpcodeTable ==
    << OP_HALT, OP_RET, OP_SHL, OP_SHR, OP_ROL, OP_ROR, OP_NAND, OP_AND,
       OP_OR, OP_XOR, OP_LOAD, OP_STOR, OP_BREQ, OP_BRNE, OP_CREQ, OP_CRNE >>

\* C16: decoding is total. Every nibble 0x0..0xF is the opcode of exactly
\* one entry of the table; a step that has fetched its instruction byte
\* (and operand) decodes it as opcode = high nibble, reg_a = bits [3:2],
\* reg_b = bits [1:0], that is, as the one triple with
\* byte = 16 * opcode + 4 * reg_a + reg_b; and no step ends in the
\* unassigned-opcode or in the invalid-register-selector error.
C16_DecodeTotal ==
    /\ [](/\ \A n \in 0 .. 15 :
               Cardinality({i \in 1 .. Len(OpcodeTable) : OpcodeTable[i] = n}) = 1
          /\ core.fault \notin {Unreachable, NoSuchRegister})
    /\ [][(IsStep /\ core.regs.ip + 2 < MEM_SIZE)
            => /\ core'.log.opcode \in 0 .. 15
               /\ core'.log.r_a \in 0 .. 3
               /\ core'.log.r_b \in 0 .. 3
               /\ 16 * core'.log.opcode + 4 * core'.log.r_a + core'.log.r_b
                    = CurInstr]_vars

\* the byte 0xFF at 6 was decoded as CRNE r3,r3 and executed
C16_Witness ==
    /\ pc = "run"
    /\ ImageAt(buffer, 6) = 255
    /\ core.log = [opcode |-> OP_CRNE, r_a |-> 3, r_b |-> 3, addr |-> 9]
    /\ core.regs.ip = 9
    /\ core.fault = NoFault

\* what a step of an operand-taking instruction does with its operand
OperandUsed ==
    /\ core'.fault # IndexOutOfBounds
    /\ core'.log.addr = CurOperand
    /\ (CurOp = OP_LOAD /\ CurOperand # DEV_CHAR)
         => /\ pc' = "run"
            /\ Registers_get(core'.regs, CurA) = MemAt(core.memory, CurOperand)
    /\ (CurOp = OP_STOR /\ CurOperand # DEV_CHAR)
         => /\ pc' = "run"
            /\ MemAt(core'.memory, CurOperand) = CurValA

\* C17: the step of an operand-taking instruction at address p takes the
\* operand memory[p+1] * 256 + memory[p+2], addresses modulo 65536; LOAD
\* with a storage operand sets reg_a to the byte at exactly that address
\* and STOR with a storage operand stores reg_a at exactly that address.
C17_Operand ==
    [][(IsStep /\ IpInMemory /\ CurOp > OP_XOR) => OperandUsed]_vars

\* the same for the instructions whose operand bytes are in the array
C17_OperandInside ==
    [][(IsStep /\ core.regs.ip + 2 < MEM_SIZE /\ CurOp > OP_XOR)
        => OperandUsed]_vars

\* the general-purpose registers r0..r3 of a register file
General(rg) == << rg.r0, rg.r1, rg.r2, rg.r3 >>

\* C18: the only general-purpose register a step can change is the one
\* reg_a selects, and only in a step of a shift, rotate or logic
\* instruction or of LOAD: the register reg_b selects, when it is another
\* one, and the two unselected registers keep their values, and HALT, RET,
\* STOR, BREQ, BRNE, CREQ and CRNE change no general-purpose register.
C18_RegisterFrame ==
    [][IsStep
        => /\ \A r \in 0 .. 3 :
                General(core'.regs)[r + 1] # General(core.regs)[r + 1]
                  => /\ IpInMemory
                     /\ r = CurA
                     /\ CurOp \in {OP_SHL, OP_SHR, OP_ROL, OP_ROR, OP_NAND,
                                   OP_AND, OP_OR, OP_XOR, OP_LOAD}
           /\ (IpInMemory /\ CurOp \in {OP_HALT, OP_RET, OP_STOR, OP_BREQ,
                                        OP_BRNE, OP_CREQ, OP_CRNE})
                => General(core'.regs) = General(core.regs)]_vars

\* XOR r2,r3 has changed r2 and kept r3 and the unselected r0 and r1
C18_Witness ==
    /\ pc = "run"
    /\ core.log = [opcode |-> OP_XOR, r_a |-> 2, r_b |-> 3, addr |-> 0]
    /\ ImageAt(buffer, 7) = 15
    /\ General(core.regs) = << 0, 0, 90, 85 >>

\* the step is a LOAD or a STOR with the device operand, its operand bytes
\* in the array
CurDeviceAccess(opcode) ==
    /\ core.regs.ip + 2 < MEM_SIZE
    /\ CurOp = opcode
    /\ CurOperand = DEV_CHAR

C19_WitnessFetch ==
    /\ pc = "panic"
    /\ core.regs.ip = DEV_CHAR
    /\ core.log.opcode = OP_RET
    /\ core.keys = 1
    /\ core.out = << 65 >>

\* C20: the invalid-output-character error is unreachable: whatever byte
\* 0..255 reg_a holds, a STOR to the device address 0xFFFF completes
\* normally, having emitted one character, whose code is that byte.
C20_OutputAlwaysValid ==
    /\ [](core.fault # NotAValidCharacter)
    /\ [][(IsStep /\ CurDeviceAccess(OP_STOR))
            => /\ CurValA \in 0 .. 255
               /\ pc' = "run"
               /\ core'.fault = NoFault
               /\ core'.regs = [core.regs EXCEPT !.ip = AfterOperand]
               /\ Len(core'.out) = Len(core.out) + 1
               /\ core'.out[Len(core'.out)] = CurValA]_vars

\* the byte 0xFF in r0 was written to the device
C20_Witness ==
    /\ pc = "run"
    /\ buffer \in StorImages
    /\ core.log = [opcode |-> OP_STOR, r_a |-> 0, r_b |-> 0, addr |-> DEV_CHAR]
    /\ core.regs.r0 = 255
    /\ core.out = << 255 >>
    /\ core.fault = NoFault

========================================================================
